---- MODULE Spec2Model ----
(***************************************************************************)
(* Height-based document pagination and PDF export.                        *)
(*                                                                         *)
(* The model covers the usePagination hook (page geometry, the page-break  *)
(* loop, the debounced recalculation and the effect cleanup), the parts of *)
(* DocumentEditor that drive it (onUpdate, ResizeObserver, the delayed     *)
(* recalculate of insertTestContent) and exportToPDF (capture, slicing of  *)
(* the canvas into page images, assembly and save of the document).        *)
(*                                                                         *)
(* Time is counted in milliseconds.  A timer fires when its remaining time *)
(* is zero and time does not pass over a due timer.                        *)
(***************************************************************************)
EXTENDS Integers, Sequences, FiniteSets, TLC

(***************************************************************************)
(* Bounds of the model                                                     *)
(***************************************************************************)
\* content heights range over 0 .. MaxPages * CONTENT_HEIGHT_PX + 1
MaxPages == 3
\* number of delayed recalculate timers of insertTestContent pending at once
MaxInsertTimers == 1
\* number of exports started in one run
MaxExports == 2
\* scale factors of the slicing range over 1 .. MaxScale
MaxScale == 3
\* footer templates are made of up to MaxPieces pieces of text
MaxPieces == 3
\* footers are rendered for the page indices 0 .. MaxPageIndex
MaxPageIndex == 10

(***************************************************************************)
(* Page geometry (usePagination.ts, lines 8-20)                            *)
(***************************************************************************)
\* LETTER_WIDTH_INCHES = 8.5, kept in tenths of an inch to stay integral
LETTER_WIDTH_INCHES_X10 == 85
LETTER_HEIGHT_INCHES == 11
MARGIN_INCHES == 1
DPI == 96

LETTER_WIDTH_PX == (LETTER_WIDTH_INCHES_X10 * DPI) \div 10
LETTER_HEIGHT_PX == LETTER_HEIGHT_INCHES * DPI
MARGIN_PX == MARGIN_INCHES * DPI

CONTENT_WIDTH_PX == LETTER_WIDTH_PX - 2 * MARGIN_PX
\* as CONTENT_HEIGHT_PX, with the margin taken off once
CONTENT_HEIGHT_PX_OneMargin == LETTER_HEIGHT_PX - MARGIN_PX
CONTENT_HEIGHT_PX == LETTER_HEIGHT_PX - 2 * MARGIN_PX

\* the geometry the hook hands to its callers, with the page size it is
\* derived from
PageGeometry ==
    [ pageWidthPx     |-> LETTER_WIDTH_PX,
      pageHeightPx    |-> LETTER_HEIGHT_PX,
      marginPx        |-> MARGIN_PX,
      contentWidthPx  |-> CONTENT_WIDTH_PX,
      contentHeightPx |-> CONTENT_HEIGHT_PX ]

\* delay of the debounce timer set by recalculate
DEBOUNCE_MS == 150
\* delay of the recalculate that insertTestContent schedules
INSERT_DELAY_MS == 50
\* largest step of time; both delays are multiples of it
TickMs == INSERT_DELAY_MS

(***************************************************************************)
(* Arithmetic helpers                                                      *)
(***************************************************************************)
Max(a, b) == IF a >= b THEN a ELSE b
Min(a, b) == IF a <= b THEN a ELSE b
SetMin(S) == CHOOSE x \in S : \A y \in S : x <= y

\* Math.ceil(a / b) for an integer a and b > 0
Ceil(a, b) == -((-a) \div b)

\* The scrollHeight values the content element takes: around every page
\* boundary up to MaxPages pages, and two and a half pages.
Heights ==
    { k * CONTENT_HEIGHT_PX + d : k \in 0..MaxPages, d \in {0, 1} }
        \cup { CONTENT_HEIGHT_PX - 1, (5 * CONTENT_HEIGHT_PX) \div 2 }

VARIABLES
    phase,              \* "init" (rendered, effects not run), "mounted", "unmounted"
    contentRefPresent,  \* contentRef.current is an element
    contentHeight,      \* contentRef.current.scrollHeight of the content element
    pageBreaks,         \* useState<PageBreak[]>
    totalPages,         \* useState(1)
    lastCalc,           \* outcome of the latest calculatePageBreaks call
    timers,             \* pending setTimeout timers: [id, kind, remaining]
    debounceTimerRef,   \* debounceTimerRef.current: a timer id, 0 for null
    observerConnected,  \* the ResizeObserver observes the content element
    resizePending,      \* a size change is waiting for the observer callback
    sinceTrigger,       \* ms since the latest recalculate() call, capped
    burstRuns,          \* timer-driven recomputations since the burst began
    burstTriggers,      \* recalculate() calls of the burst, counted up to 2
    heightAtTrigger,    \* contentHeight at the latest recalculate() call
    elementBg,          \* element.style.background of the content element
    inflight,           \* exports awaiting html2canvas: [id, previousBg, height]
    exportsStarted,     \* number of exportToPDF calls so far
    lastExport,         \* what the export that finished last left behind
    footerText,         \* useState(''): the footer template, a sequence of characters
    showPageNumbers     \* useState(true)

vars == << phase, contentRefPresent, contentHeight, pageBreaks, totalPages,
           lastCalc, timers, debounceTimerRef, observerConnected,
           resizePending, sinceTrigger, burstRuns, burstTriggers,
           heightAtTrigger, elementBg, inflight, exportsStarted, lastExport,
           footerText, showPageNumbers >>

paginationVars == << pageBreaks, totalPages, lastCalc >>
timerVars == << timers, debounceTimerRef, sinceTrigger, burstRuns, burstTriggers,
               heightAtTrigger >>
exportVars == << elementBg, inflight, exportsStarted, lastExport >>
chromeVars == << footerText, showPageNumbers >>

(***************************************************************************)
(* calculatePageBreaks (usePagination.ts, lines 28-53)                     *)
(***************************************************************************)
\* as PageBreak, numbering the breaks from 0
PageBreakFromZero(pageNum, top) == [pageNumber |-> pageNum - 1, heightFromTop |-> top]

\* one element of breaks (lines 39-42)
PageBreak(pageNum, top) == [pageNumber |-> pageNum, heightFromTop |-> top]

\* as BreaksLoop, with the loop condition nextPageTop <= contentHeight
RECURSIVE BreaksLoopInclusive(_, _, _, _)
BreaksLoopInclusive(pageNum, nextPageTop, height, breaks) ==
    IF nextPageTop <= height
    THEN BreaksLoopInclusive(pageNum + 1, (pageNum + 1) * CONTENT_HEIGHT_PX, height,
                             Append(breaks, PageBreak(pageNum, nextPageTop)))
    ELSE breaks

\* the while loop: pageNum, nextPageTop and breaks are the loop's variables
RECURSIVE BreaksLoop(_, _, _, _)
BreaksLoop(pageNum, nextPageTop, height, breaks) ==
    IF nextPageTop < height
    THEN BreaksLoop(pageNum + 1, (pageNum + 1) * CONTENT_HEIGHT_PX, height,
                    Append(breaks, PageBreak(pageNum, nextPageTop)))
    ELSE breaks

\* as CalculatedPages, rounding the quotient down
CalculatedPagesFloor(height) == Max(1, height \div CONTENT_HEIGHT_PX)

\* Math.max(1, Math.ceil(contentHeight / CONTENT_HEIGHT_PX))
CalculatedPages(height) == Max(1, Ceil(height, CONTENT_HEIGHT_PX))

\* the height about to be measured is below the one measured last
Shrinks == lastCalc.outcome = "measured" /\ contentHeight < lastCalc.height

\* as CalculatePageBreaks, keeping the old breaks beyond the new ones
CalculatePageBreaksKeepStale ==
    IF ~contentRefPresent
    THEN /\ UNCHANGED << pageBreaks, totalPages >>
         /\ lastCalc' = [outcome |-> "absent", height |-> 0, shrunk |-> FALSE]
    ELSE /\ LET breaks == BreaksLoop(1, CONTENT_HEIGHT_PX, contentHeight, << >>)
            IN  pageBreaks' = breaks \o SubSeq(pageBreaks, Len(breaks) + 1,
                                               Len(pageBreaks))
         /\ totalPages' = CalculatedPages(contentHeight)
         /\ lastCalc' = [outcome |-> "measured", height |-> contentHeight,
                          shrunk |-> Shrinks]

\* as CalculatePageBreaks, resetting the state when the reference is absent
CalculatePageBreaksReset ==
    IF ~contentRefPresent
    THEN /\ pageBreaks' = << >>
         /\ totalPages' = 1
         /\ lastCalc' = [outcome |-> "absent", height |-> 0, shrunk |-> FALSE]
    ELSE /\ pageBreaks' = BreaksLoop(1, CONTENT_HEIGHT_PX, contentHeight, << >>)
         /\ totalPages' = CalculatedPages(contentHeight)
         /\ lastCalc' = [outcome |-> "measured", height |-> contentHeight,
                          shrunk |-> Shrinks]

\* as CalculatePageBreaks, with setPageBreaks committed without setTotalPages
CalculatePageBreaksTorn ==
    IF ~contentRefPresent
    THEN /\ UNCHANGED << pageBreaks, totalPages >>
         /\ lastCalc' = [outcome |-> "absent", height |-> 0, shrunk |-> FALSE]
    ELSE /\ pageBreaks' = BreaksLoop(1, CONTENT_HEIGHT_PX, contentHeight, << >>)
         /\ UNCHANGED totalPages
         /\ lastCalc' = [outcome |-> "measured", height |-> contentHeight,
                          shrunk |-> Shrinks]

\* One call of calculatePageBreaks.  lastCalc records whether the call
\* returned early or which height it measured, and whether that height is
\* below the one measured before.  setPageBreaks and
\* setTotalPages are called in one callback (an effect or a timer), and React
\* commits the updates of one callback together: the next render reads both.
CalculatePageBreaks ==
    IF ~contentRefPresent
    THEN /\ UNCHANGED << pageBreaks, totalPages >>
         /\ lastCalc' = [outcome |-> "absent", height |-> 0, shrunk |-> FALSE]
    ELSE /\ pageBreaks' = BreaksLoop(1, CONTENT_HEIGHT_PX, contentHeight, << >>)
         /\ totalPages' = CalculatedPages(contentHeight)
         /\ lastCalc' = [outcome |-> "measured", height |-> contentHeight,
                          shrunk |-> Shrinks]

(***************************************************************************)
(* Timers: setTimeout / clearTimeout                                       *)
(***************************************************************************)
TimerIds(ts) == { t.id : t \in ts }
DebounceTimers == { t \in timers : t.kind = "debounce" }
InsertTimers == { t \in timers : t.kind = "insert" }

\* the handle setTimeout returns: one no pending timer and no reference holds
FreshId(ts, held) ==
    CHOOSE i \in 1..(Cardinality(ts) + 2) : i \notin TimerIds(ts) /\ i # held

\* as ClearTimeout, leaving the timer pending
ClearTimeoutNoop(ts, id) == ts

\* clearTimeout(id): a no-op for null and for a timer that has fired
ClearTimeout(ts, id) == { t \in ts : t.id # id }

\* as Recalculate, setting no new timer when it has cleared a pending one
RecalculateClearOnly(ts) ==
    LET cleared == IF debounceTimerRef # 0
                   THEN ClearTimeout(ts, debounceTimerRef) ELSE ts
        id == FreshId(cleared, 0)
        pendingBefore == \E t \in ts : t.kind = "debounce"
    IN  /\ timers' = IF pendingBefore THEN cleared
                     ELSE cleared \cup
                        {[id |-> id, kind |-> "debounce", remaining |-> DEBOUNCE_MS]}
        /\ debounceTimerRef' = id
        /\ sinceTrigger' = 0
        /\ burstRuns' = IF DebounceTimers = {} THEN 0 ELSE burstRuns
        /\ burstTriggers' = IF DebounceTimers = {} THEN 1 ELSE Min(2, burstTriggers + 1)
        /\ heightAtTrigger' = contentHeight'

\* recalculate (usePagination.ts, lines 55-60) applied to the timer set ts
Recalculate(ts) ==
    LET cleared == IF debounceTimerRef # 0
                   THEN ClearTimeout(ts, debounceTimerRef) ELSE ts
        id == FreshId(cleared, 0)
    IN  /\ timers' = cleared \cup
                        {[id |-> id, kind |-> "debounce", remaining |-> DEBOUNCE_MS]}
        /\ debounceTimerRef' = id
        /\ sinceTrigger' = 0
        /\ burstRuns' = IF DebounceTimers = {} THEN 0 ELSE burstRuns
        /\ burstTriggers' = IF DebounceTimers = {} THEN 1 ELSE Min(2, burstTriggers + 1)
        /\ heightAtTrigger' = contentHeight'

\* no export has finished yet
NoExport == [id |-> 0, captureOk |-> FALSE, promise |-> "none", totalHeight |-> 0,
             images |-> << >>, saved |-> FALSE, doc |-> << >>]

(***************************************************************************)
(* Initial state: the component is rendered, no effect has run             *)
(***************************************************************************)
Init ==
    /\ phase = "init"
    /\ contentRefPresent = TRUE
    /\ contentHeight \in Heights
    /\ pageBreaks = << >>
    /\ totalPages = 1
    /\ lastCalc = [outcome |-> "never", height |-> 0, shrunk |-> FALSE]
    /\ timers = {}
    /\ debounceTimerRef = 0
    /\ observerConnected = FALSE
    /\ resizePending = FALSE
    /\ sinceTrigger = DEBOUNCE_MS
    /\ burstRuns = 0
    /\ burstTriggers = 0
    /\ heightAtTrigger = 0
    /\ elementBg = ""
    /\ inflight = {}
    /\ exportsStarted = 0
    /\ lastExport = NoExport
    /\ footerText = << >>
    /\ showPageNumbers = TRUE

(***************************************************************************)
(* usePagination effect and its cleanup (usePagination.ts, lines 62-81)    *)
(***************************************************************************)
\* The effect body.  Observing an element delivers a first size notification.
Mount ==
    /\ phase = "init"
    /\ phase' = "mounted"
    /\ CalculatePageBreaks
    /\ observerConnected' = contentRefPresent
    /\ resizePending' = contentRefPresent
    /\ UNCHANGED << contentRefPresent, contentHeight, timerVars, exportVars >>
    /\ UNCHANGED chromeVars

\* The effect cleanup at unmount; React has reset contentRef.current to null
\* and the editor is destroyed.  Timers other than the one debounceTimerRef
\* holds stay pending.
Unmount ==
    /\ phase = "mounted"
    /\ phase' = "unmounted"
    /\ contentRefPresent' = FALSE
    /\ observerConnected' = FALSE
    /\ resizePending' = FALSE
    /\ timers' = IF debounceTimerRef # 0
                 THEN ClearTimeout(timers, debounceTimerRef) ELSE timers
    /\ UNCHANGED << contentHeight, paginationVars, debounceTimerRef,
                    sinceTrigger, burstRuns, burstTriggers, heightAtTrigger,
                    exportVars >>
    /\ UNCHANGED chromeVars

(***************************************************************************)
(* Recalculation triggers                                                  *)
(***************************************************************************)
\* editor onUpdate (DocumentEditor.tsx, lines 64-78): the content changed
OnUpdate ==
    /\ phase = "mounted"
    /\ \E h \in Heights :
        /\ contentHeight' = h
        /\ resizePending' = (resizePending \/ (observerConnected /\ h # contentHeight))
    /\ Recalculate(timers)
    /\ UNCHANGED << phase, contentRefPresent, paginationVars, observerConnected,
                    exportVars >>
    /\ UNCHANGED chromeVars

\* the content element changes size without an editor update
Resize ==
    /\ phase = "mounted"
    /\ \E h \in Heights \ {contentHeight} :
        contentHeight' = h
    /\ resizePending' = observerConnected
    /\ UNCHANGED << phase, contentRefPresent, paginationVars, timerVars,
                    observerConnected, exportVars >>
    /\ UNCHANGED chromeVars

\* the ResizeObserver callback (usePagination.ts, lines 67-69)
ResizeObserverCallback ==
    /\ observerConnected
    /\ resizePending
    /\ resizePending' = FALSE
    /\ UNCHANGED contentHeight
    /\ Recalculate(timers)
    /\ UNCHANGED << phase, contentRefPresent, paginationVars, observerConnected,
                    exportVars >>
    /\ UNCHANGED chromeVars

\* insertTestContent (DocumentEditor.tsx, lines 111-118): setContent emits
\* an editor update, then the recalculate is scheduled 50 ms later
InsertTestContent ==
    /\ phase = "mounted"
    /\ Cardinality(InsertTimers) < MaxInsertTimers
    /\ \E h \in Heights :
        /\ contentHeight' = h
        /\ resizePending' = (resizePending \/ (observerConnected /\ h # contentHeight))
    /\ LET cleared == IF debounceTimerRef # 0
                      THEN ClearTimeout(timers, debounceTimerRef) ELSE timers
           id == FreshId(cleared, 0)
           withDebounce == cleared \cup
                {[id |-> id, kind |-> "debounce", remaining |-> DEBOUNCE_MS]}
       IN  /\ timers' = withDebounce \cup
                {[id |-> FreshId(withDebounce, id), kind |-> "insert",
                  remaining |-> INSERT_DELAY_MS]}
           /\ debounceTimerRef' = id
    /\ sinceTrigger' = 0
    /\ burstRuns' = IF DebounceTimers = {} THEN 0 ELSE burstRuns
    /\ burstTriggers' = IF DebounceTimers = {} THEN 1 ELSE Min(2, burstTriggers + 1)
    /\ heightAtTrigger' = contentHeight'
    /\ UNCHANGED << phase, contentRefPresent, paginationVars, observerConnected,
                    exportVars >>
    /\ UNCHANGED chromeVars

\* the callback of the 50 ms timer: recalculate && recalculate()
InsertTimerFire ==
    \E t \in InsertTimers :
        /\ t.remaining = 0
        /\ UNCHANGED contentHeight
        /\ Recalculate(timers \ {t})
        /\ UNCHANGED << phase, contentRefPresent, paginationVars,
                        observerConnected, resizePending, exportVars >>
        /\ UNCHANGED chromeVars

\* the callback of the debounce timer (usePagination.ts, lines 57-59)
DebounceTimerFire ==
    \E t \in DebounceTimers :
        /\ t.remaining = 0
        /\ timers' = timers \ {t}
        /\ CalculatePageBreaks
        /\ burstRuns' = burstRuns + 1
        /\ UNCHANGED << phase, contentRefPresent, contentHeight, debounceTimerRef,
                        sinceTrigger, burstTriggers, heightAtTrigger,
                        observerConnected,
                        resizePending, exportVars >>
        /\ UNCHANGED chromeVars

\* time passes, up to the next timer that is due
Tick ==
    /\ timers # {}
    /\ LET d == SetMin({TickMs} \cup { t.remaining : t \in timers })
       IN  /\ d > 0
           /\ timers' = { [t EXCEPT !.remaining = t.remaining - d] : t \in timers }
           /\ sinceTrigger' = Min(DEBOUNCE_MS, sinceTrigger + d)
    /\ UNCHANGED << phase, contentRefPresent, contentHeight, paginationVars,
                    debounceTimerRef, burstRuns, burstTriggers, heightAtTrigger,
                    observerConnected, resizePending, exportVars >>
    /\ UNCHANGED chromeVars

(***************************************************************************)
(* exportToPDF (DocumentEditor.tsx, lines 133-175)                         *)
(***************************************************************************)
\* const scale = 2
scale == 2

\* a page of the document that holds no image
BlankPage == [image |-> 0, w |-> 0, h |-> 0]

\* new jsPDF(...): the document starts with one page
NewPdf == << BlankPage >>

\* as TotalPagesPdf, rounding the quotient down
TotalPagesPdfFloor(totalHeight, s) == totalHeight \div (CONTENT_HEIGHT_PX * s)

\* Math.ceil(totalHeight / pageHeightPx)
TotalPagesPdf(totalHeight, s) == Ceil(totalHeight, CONTENT_HEIGHT_PX * s)

\* as PageCanvas, with every page canvas one full page high
PageCanvasFullHeight(i, totalHeight, s) ==
    LET pageHeightPx == CONTENT_HEIGHT_PX * s
        sy == i * pageHeightPx
    IN  [width |-> CONTENT_WIDTH_PX * s,
         height |-> pageHeightPx,
         sy |-> sy]

\* the page canvas of iteration i: its size and the source row it starts at
PageCanvas(i, totalHeight, s) ==
    LET pageHeightPx == CONTENT_HEIGHT_PX * s
        sy == i * pageHeightPx
    IN  [width |-> CONTENT_WIDTH_PX * s,
         height |-> Min(pageHeightPx, totalHeight - sy),
         sy |-> sy]

\* pdf.addImage(imgData, 'PNG', 0, 0, CONTENT_WIDTH_PX, CONTENT_HEIGHT_PX)
\* draws image number n over the whole of the current (last) page
AddImage(pdf, n) ==
    [pdf EXCEPT ![Len(pdf)] =
        [image |-> n, w |-> CONTENT_WIDTH_PX, h |-> CONTENT_HEIGHT_PX]]

\* as ExportLoop, adding a page before every image, the first included
RECURSIVE ExportLoopAlwaysAddPage(_, _, _, _)
ExportLoopAlwaysAddPage(i, totalHeight, s, acc) ==
    IF i < TotalPagesPdf(totalHeight, s)
    THEN ExportLoopAlwaysAddPage(i + 1, totalHeight, s,
            [images |-> Append(acc.images, PageCanvas(i, totalHeight, s)),
             pdf |-> AddImage(Append(acc.pdf, BlankPage), i + 1)])
    ELSE acc

\* the for loop over the pages; acc holds the page images and the document
RECURSIVE ExportLoop(_, _, _, _)
ExportLoop(i, totalHeight, s, acc) ==
    IF i < TotalPagesPdf(totalHeight, s)
    THEN LET pdf1 == IF i > 0 THEN Append(acc.pdf, BlankPage) ELSE acc.pdf
         IN  ExportLoop(i + 1, totalHeight, s,
                        [images |-> Append(acc.images, PageCanvas(i, totalHeight, s)),
                         pdf |-> AddImage(pdf1, i + 1)])
    ELSE acc

\* as ExportResult, settling the promise as fulfilled with a saved document
\* when the capture fails
ExportResultSwallow(job, captureOk) ==
    LET totalHeight == job.height * scale
        done == ExportLoop(0, totalHeight, scale, [images |-> << >>, pdf |-> NewPdf])
    IN  IF captureOk
        THEN [id |-> job.id, captureOk |-> TRUE, promise |-> "fulfilled",
              totalHeight |-> totalHeight, images |-> done.images,
              saved |-> TRUE, doc |-> done.pdf]
        ELSE [id |-> job.id, captureOk |-> FALSE, promise |-> "fulfilled",
              totalHeight |-> 0, images |-> << >>,
              saved |-> TRUE, doc |-> NewPdf]

\* What one exportToPDF call leaves behind once html2canvas has settled:
\* the page images, the document handed to pdf.save and the state of the
\* promise the call returned.  A rejected capture throws at the await.
ExportResult(job, captureOk) ==
    LET totalHeight == job.height * scale
        done == ExportLoop(0, totalHeight, scale, [images |-> << >>, pdf |-> NewPdf])
    IN  IF captureOk
        THEN [id |-> job.id, captureOk |-> TRUE, promise |-> "fulfilled",
              totalHeight |-> totalHeight, images |-> done.images,
              saved |-> TRUE, doc |-> done.pdf]
        ELSE [id |-> job.id, captureOk |-> FALSE, promise |-> "rejected",
              totalHeight |-> 0, images |-> << >>,
              saved |-> FALSE, doc |-> << >>]

\* the call up to the await: the background is saved and set to white and
\* html2canvas clones the content element as it is now
ExportStart ==
    /\ phase = "mounted"
    /\ contentRefPresent
    /\ exportsStarted < MaxExports
    /\ exportsStarted' = exportsStarted + 1
    /\ inflight' = inflight \cup
            {[id |-> exportsStarted + 1, previousBg |-> elementBg,
              height |-> contentHeight]}
    /\ elementBg' = "#ffffff"
    /\ UNCHANGED << phase, contentRefPresent, contentHeight, paginationVars,
                    timerVars, observerConnected, resizePending, lastExport >>
    /\ UNCHANGED chromeVars

\* html2canvas resolves: the pages are sliced, the background is restored
\* and the document is saved
CaptureResolve ==
    \E job \in inflight :
        /\ inflight' = inflight \ {job}
        /\ elementBg' = job.previousBg
        /\ lastExport' = ExportResult(job, TRUE)
        /\ UNCHANGED << phase, contentRefPresent, contentHeight, paginationVars,
                        timerVars, observerConnected, resizePending,
                        exportsStarted >>
        /\ UNCHANGED chromeVars

\* html2canvas rejects: nothing after the await runs
CaptureReject ==
    \E job \in inflight :
        /\ inflight' = inflight \ {job}
        /\ lastExport' = ExportResult(job, FALSE)
        /\ UNCHANGED << phase, contentRefPresent, contentHeight, paginationVars,
                        timerVars, observerConnected, resizePending,
                        elementBg, exportsStarted >>
        /\ UNCHANGED chromeVars

(***************************************************************************)
(* Document settings and PageBreakVisualizer (DocumentEditor.tsx,          *)
(* lines 478-628).  A string is a sequence of characters.                  *)
(***************************************************************************)
\* the placeholder '{page}'
PagePlaceholder == << "{", "p", "a", "g", "e", "}" >>
\* the text 'Page '
PageWord == << "P", "a", "g", "e", " " >>

\* the pieces footer templates are put together from: the placeholder, two
\* plain texts and the beginning of a placeholder
Pieces == { PagePlaceholder, PageWord, << " ", "o", "f", " ", "N" >>,
            << "{", "p", "a" >> }

\* the texts of up to n pieces
RECURSIVE Concats(_)
Concats(n) ==
    IF n = 0 THEN { << >> }
    ELSE LET shorter == Concats(n - 1)
         IN  shorter \cup { t \o p : t \in shorter, p \in Pieces }

\* the values typed into the footer input
Templates == Concats(MaxPieces)

DigitChars == << "0", "1", "2", "3", "4", "5", "6", "7", "8", "9" >>

\* String(n) for an integer n >= 0
RECURSIVE ToDecimal(_)
ToDecimal(n) ==
    IF n < 10 THEN << DigitChars[n + 1] >>
    ELSE ToDecimal(n \div 10) \o << DigitChars[(n % 10) + 1] >>

\* str.indexOf(pat, from), 1-based; 0 when pat does not occur
RECURSIVE IndexOf(_, _, _)
IndexOf(str, pat, from) ==
    IF from + Len(pat) - 1 > Len(str) THEN 0
    ELSE IF SubSeq(str, from, from + Len(pat) - 1) = pat THEN from
    ELSE IndexOf(str, pat, from + 1)

\* as Replace, replacing every occurrence
RECURSIVE ReplaceEvery(_, _, _)
ReplaceEvery(str, pat, rep) ==
    LET k == IndexOf(str, pat, 1)
    IN  IF k = 0 THEN str
        ELSE SubSeq(str, 1, k - 1) \o rep
                \o ReplaceEvery(SubSeq(str, k + Len(pat), Len(str)), pat, rep)

\* as Replace, putting rep at the end when pat does not occur
ReplaceOrAppend(str, pat, rep) ==
    LET k == IndexOf(str, pat, 1)
    IN  IF k = 0 THEN str \o rep
        ELSE SubSeq(str, 1, k - 1) \o rep \o SubSeq(str, k + Len(pat), Len(str))

\* str.replace(pat, rep) with a string pattern: the first occurrence only
Replace(str, pat, rep) ==
    LET k == IndexOf(str, pat, 1)
    IN  IF k = 0 THEN str
        ELSE SubSeq(str, 1, k - 1) \o rep \o SubSeq(str, k + Len(pat), Len(str))

\* as Footer, with the page-number fallback ahead of the template
FooterNumbersFirst(i, footer, show) ==
    IF show THEN PageWord \o ToDecimal(i + 1)
    ELSE IF footer # << >> THEN Replace(footer, PagePlaceholder, ToDecimal(i + 1))
    ELSE << >>

\* the footer of page index i (lines 571-573)
Footer(i, footer, show) ==
    IF footer # << >>
    THEN Replace(footer, PagePlaceholder, ToDecimal(i + 1))
    ELSE IF show THEN PageWord \o ToDecimal(i + 1) ELSE << >>

PAGE_GAP_PX == 28

\* as PageBackgrounds, with the pages stacked without a gap
PageBackgroundsStacked(pages) ==
    [ k \in 1..Max(1, pages) |->
        [ index  |-> k - 1,
          width  |-> CONTENT_WIDTH_PX,
          height |-> CONTENT_HEIGHT_PX,
          top    |-> (k - 1) * CONTENT_HEIGHT_PX ] ]

\* the page backgrounds; the k-th element is the one of index i = k - 1
\* (lines 519-534)
PageBackgrounds(pages) ==
    [ k \in 1..Max(1, pages) |->
        [ index  |-> k - 1,
          width  |-> CONTENT_WIDTH_PX,
          height |-> CONTENT_HEIGHT_PX,
          top    |-> (k - 1) * (CONTENT_HEIGHT_PX + PAGE_GAP_PX) ] ]

\* the gap strips between the pages (lines 579-597)
GapStrips(pages) ==
    [ k \in 1..Max(0, pages - 1) |->
        [ width  |-> CONTENT_WIDTH_PX,
          height |-> PAGE_GAP_PX,
          top    |-> k * (CONTENT_HEIGHT_PX + PAGE_GAP_PX) - PAGE_GAP_PX ] ]

\* as BreakLines, with the lines at heightFromTop
BreakLinesNoMargin(breaks, marginPx) ==
    [ k \in 1..Len(breaks) |->
        [ top |-> breaks[k].heightFromTop, label |-> breaks[k].pageNumber ] ]

\* the page break lines and their labels (lines 602-625)
BreakLines(breaks, marginPx) ==
    [ k \in 1..Len(breaks) |->
        [ top |-> breaks[k].heightFromTop + marginPx,
          label |-> breaks[k].pageNumber ] ]

\* the footer input's onChange (line 372)
SetFooterText ==
    /\ phase = "mounted"
    /\ \E t \in Templates \ {footerText} : footerText' = t
    /\ UNCHANGED << phase, contentRefPresent, contentHeight, paginationVars,
                    timerVars, observerConnected, resizePending, exportVars,
                    showPageNumbers >>

\* the checkbox's onChange (line 383)
SetShowPageNumbers ==
    /\ phase = "mounted"
    /\ showPageNumbers' = ~showPageNumbers
    /\ UNCHANGED << phase, contentRefPresent, contentHeight, paginationVars,
                    timerVars, observerConnected, resizePending, exportVars,
                    footerText >>

(***************************************************************************)
(* Properties of the page count and the page breaks                        *)
(***************************************************************************)
\* the latest calculatePageBreaks call measured height h
Measured(h) == lastCalc.outcome = "measured" /\ lastCalc.height = h

C2_BreaksBelowHeight ==
    lastCalc.outcome = "measured" =>
        LET H == lastCalc.height
            P == CONTENT_HEIGHT_PX
            K == { k \in 1..(MaxPages + 1) : k * P < H }
        IN  /\ Len(pageBreaks) = Cardinality(K)
            /\ \A i \in 1..Len(pageBreaks) :
                /\ i \in K
                /\ pageBreaks[i].pageNumber = i
                /\ pageBreaks[i].heightFromTop = i * P
                /\ pageBreaks[i].heightFromTop < H
                /\ pageBreaks[i].heightFromTop % P = 0

C2_Witness ==
    /\ Measured(3 * CONTENT_HEIGHT_PX + 1)
    /\ Len(pageBreaks) = 3
    /\ pageBreaks[3] = [pageNumber |-> 3, heightFromTop |-> 3 * CONTENT_HEIGHT_PX]

\* C3: when the measured height is an exact multiple H = k * P with k >= 1,
\* totalPages = k and there are k - 1 breaks, the last at (k - 1) * P; no
\* break lies at k * P.
C3_ExactMultiple ==
    (lastCalc.outcome = "measured" /\ lastCalc.height > 0
        /\ lastCalc.height % CONTENT_HEIGHT_PX = 0) =>
        LET P == CONTENT_HEIGHT_PX
            k == lastCalc.height \div P
        IN  /\ totalPages = k
            /\ Len(pageBreaks) = k - 1
            /\ (k > 1 => pageBreaks[k - 1].heightFromTop = (k - 1) * P)
            /\ \A i \in 1..Len(pageBreaks) : pageBreaks[i].heightFromTop # k * P

C3_Witness ==
    /\ Measured(3 * CONTENT_HEIGHT_PX)
    /\ totalPages = 3
    /\ pageBreaks = << [pageNumber |-> 1, heightFromTop |-> CONTENT_HEIGHT_PX],
                       [pageNumber |-> 2, heightFromTop |-> 2 * CONTENT_HEIGHT_PX] >>

\* C4: a recalculation whose content reference is absent is treated as a
\* measurement of 0: it leaves totalPages = 1 and pageBreaks empty, whatever
\* the state was before.
C4_AbsentTreatedAsZero ==
    lastCalc.outcome = "absent" => (totalPages = 1 /\ pageBreaks = << >>)

(***************************************************************************)
(* Properties of the debounce and of the teardown                          *)
(***************************************************************************)
\* C5: all recalculate() calls share one 150 ms debounce timer.  While the
\* component is mounted a burst of one or more calls leaves exactly one
\* timer pending, due 150 ms after the latest call; the burst is followed by
\* one recomputation, at that moment, and it measures the content height the
\* element has when the timer fires.
C5_Debounce ==
    /\ [](/\ Cardinality(DebounceTimers) <= 1
          /\ burstRuns <= 1
          /\ \A t \in DebounceTimers :
                /\ t.id = debounceTimerRef
                /\ t.remaining + sinceTrigger = DEBOUNCE_MS
                /\ burstRuns = 0
          /\ (phase = "mounted" /\ burstTriggers > 0 /\ burstRuns = 0)
                => DebounceTimers # {})
    /\ [][ /\ (lastCalc' # lastCalc => (phase = "init" \/ burstRuns' > burstRuns))
            /\ (burstRuns' > burstRuns =>
                  /\ burstRuns = 0
                  /\ burstRuns' = 1
                  /\ DebounceTimers' = {}
                  /\ sinceTrigger = DEBOUNCE_MS
                  /\ (phase = "mounted" => Measured(contentHeight)')) ]_vars

\* a burst of two or more calls was followed by one recomputation, which
\* measured a height that differs from the height at the latest call
C5_Witness ==
    /\ phase = "mounted"
    /\ burstTriggers = 2
    /\ burstRuns = 1
    /\ sinceTrigger = DEBOUNCE_MS
    /\ lastCalc.outcome = "measured"
    /\ lastCalc.height # heightAtTrigger

\* C6: once the component is torn down no debounce timer is pending and
\* calculatePageBreaks does not run any more.
C6_TeardownCancels ==
    phase = "unmounted" => (DebounceTimers = {} /\ lastCalc.outcome # "absent")

(***************************************************************************)
(* Properties of the export                                                *)
(***************************************************************************)
\* the number of strips of height ph that cover h rows: the n >= 0 with
\* (n - 1) * ph < h <= n * ph
IsStripCount(n, h, ph) ==
    /\ n >= 0
    /\ n * ph >= h
    /\ (n > 0 => (n - 1) * ph < h)

\* the image numbers of the pages of a document that hold an image
PageImagesOf(doc) == [ i \in 1..Len(doc) |-> doc[i].image ]

\* what the loop leaves for a source image of totalHeight rows at scale s
Sliced(totalHeight, s) ==
    ExportLoop(0, totalHeight, s, [images |-> << >>, pdf |-> NewPdf])

C8_FullSizePageImages ==
    lastExport.saved =>
        \A i \in 1..Len(lastExport.images) :
            /\ lastExport.images[i].width = CONTENT_WIDTH_PX * scale
            /\ lastExport.images[i].height = CONTENT_HEIGHT_PX * scale
            /\ lastExport.doc[i].w * scale = lastExport.images[i].width
            /\ lastExport.doc[i].h * scale = lastExport.images[i].height

\* C9: for unchanged content the exported document has totalPages pages:
\* when the source image is H * s rows high and the pagination state was
\* computed from H, the two page counts agree, at every scale factor.
C9_ExportMatchesLive ==
    /\ (lastExport.saved /\ lastCalc.outcome = "measured"
            /\ lastExport.totalHeight = lastCalc.height * scale)
        => Len(lastExport.doc) = totalPages
    /\ \A s \in 1..MaxScale :
        Len(Sliced(contentHeight * s, s).pdf) = CalculatedPages(contentHeight)

C9_Witness ==
    /\ lastExport.saved
    /\ Measured(2 * CONTENT_HEIGHT_PX + 1)
    /\ lastExport.totalHeight = lastCalc.height * scale
    /\ totalPages = 3
    /\ Len(lastExport.doc) = 3

\* C10: an export whose capture fails produces no page image and saves no
\* document, and its promise is rejected; a saved document holds every page
\* image of the export; no step of an export changes pageBreaks or
\* totalPages.
C10_ExportAtomic ==
    /\ []((lastExport.id # 0 /\ ~lastExport.captureOk) =>
            /\ lastExport.images = << >>
            /\ lastExport.doc = << >>
            /\ ~lastExport.saved
            /\ lastExport.promise = "rejected")
    /\ [](lastExport.saved =>
            /\ lastExport.captureOk
            /\ IsStripCount(Len(lastExport.images), lastExport.totalHeight,
                            CONTENT_HEIGHT_PX * scale)
            /\ \A i \in 1..Len(lastExport.images) : lastExport.doc[i].image = i)
    /\ [][UNCHANGED << pageBreaks, totalPages >>]_exportVars

\* a capture failed while the pagination shows several pages
C10_Witness ==
    /\ lastExport.id # 0
    /\ ~lastExport.captureOk
    /\ lastExport.promise = "rejected"
    /\ totalPages > 1
    /\ pageBreaks # << >>

\* C11: an export never runs while another one is in flight: at most one
\* exportToPDF call is awaiting html2canvas at any time.
C11_NoConcurrentExport ==
    Cardinality(inflight) <= 1

(***************************************************************************)
(* Properties of the page chrome                                           *)
(***************************************************************************)
\* the number a string of decimal digits denotes
RECURSIVE DecimalValue(_)
DecimalValue(digits) ==
    IF digits = << >> THEN 0
    ELSE 10 * DecimalValue(SubSeq(digits, 1, Len(digits) - 1))
            + (CHOOSE d \in 0..9 : DigitChars[d + 1] = digits[Len(digits)])

\* text is the decimal numeral of n, without leading zeros
IsDecimalOf(text, n) ==
    /\ Len(text) >= 1
    /\ \A k \in 1..Len(text) : \E d \in 1..10 : DigitChars[d] = text[k]
    /\ Len(text) > 1 => text[1] # "0"
    /\ DecimalValue(text) = n

\* text is 'Page ' followed by the number n
IsPageLabel(text, n) ==
    /\ Len(text) > Len(PageWord)
    /\ SubSeq(text, 1, Len(PageWord)) = PageWord
    /\ IsDecimalOf(SubSeq(text, Len(PageWord) + 1, Len(text)), n)

\* the page indices the renderer draws (line 519)
PageIndices == 0 .. (Max(1, totalPages) - 1)

\* C12: on every page the footer is one of three outcomes, by precedence: a
\* non-empty template gives the same non-empty text whether showPageNumbers
\* is set or not; an empty template with showPageNumbers gives 'Page '
\* followed by i + 1; otherwise the footer is empty.
C12_FooterPrecedence ==
    \A i \in PageIndices \cup (0..MaxPageIndex) :
        LET out == Footer(i, footerText, showPageNumbers)
        IN  /\ footerText # << >> =>
                /\ out # << >>
                /\ out = Footer(i, footerText, ~showPageNumbers)
            /\ (footerText = << >> /\ showPageNumbers) => IsPageLabel(out, i + 1)
            /\ (footerText = << >> /\ ~showPageNumbers) => out = << >>

\* a template is set while showPageNumbers is on, and page index 2 is drawn
C12_Witness ==
    /\ phase = "mounted"
    /\ showPageNumbers
    /\ footerText = PageWord \o PagePlaceholder
    /\ 2 \in PageIndices
    /\ Footer(2, footerText, showPageNumbers) = PageWord \o << "3" >>
    /\ Footer(2, << >>, FALSE) = << >>

\* C13: for a non-empty template the footer of page index i is the template
\* with every {page} replaced by the decimal numeral of i + 1 and all other
\* characters unchanged.
C13_PlaceholderReplaced ==
    footerText # << >> =>
        \A i \in PageIndices :
            Footer(i, footerText, showPageNumbers)
                = ReplaceEvery(footerText, PagePlaceholder, ToDecimal(i + 1))

\* C14: a non-empty template without {page} is drawn verbatim on every page,
\* whether showPageNumbers is set or not.
C14_VerbatimWithoutPlaceholder ==
    (/\ footerText # << >>
     /\ \A k \in 1..(Len(footerText) - Len(PagePlaceholder) + 1) :
            SubSeq(footerText, k, k + Len(PagePlaceholder) - 1) # PagePlaceholder)
        => \A i \in PageIndices \cup (0..MaxPageIndex) : \A show \in BOOLEAN :
               Footer(i, footerText, show) = footerText

\* a template with the beginning of a placeholder only, on a second page
C14_Witness ==
    /\ phase = "mounted"
    /\ footerText = PageWord \o << "{", "p", "a" >>
    /\ showPageNumbers
    /\ totalPages >= 2
    /\ Footer(1, footerText, showPageNumbers) = footerText

\* C15: for totalPages >= 1 there is exactly one page background per page
\* index 0 .. totalPages - 1, contentWidthPx wide and contentHeightPx high,
\* at top offset i * (contentHeightPx + 28); consecutive backgrounds do not
\* overlap and are exactly 28 px apart, and a gap strip fills each gap.
C15_PageBackgrounds ==
    totalPages >= 1 =>
        LET bgs  == PageBackgrounds(totalPages)
            gaps == GapStrips(totalPages)
        IN  /\ \A i \in 0..(totalPages - 1) :
                   Cardinality({ k \in DOMAIN bgs : bgs[k].index = i }) = 1
            /\ \A k \in DOMAIN bgs :
                   /\ bgs[k].index \in 0..(totalPages - 1)
                   /\ bgs[k].width = LETTER_WIDTH_PX - 2 * MARGIN_PX
                   /\ bgs[k].height = LETTER_HEIGHT_PX - 2 * MARGIN_PX
                   /\ bgs[k].top = bgs[k].index * (bgs[k].height + 28)
            /\ \A k, l \in DOMAIN bgs :
                   bgs[l].index = bgs[k].index + 1
                       => bgs[l].top - (bgs[k].top + bgs[k].height) = 28
            /\ Len(gaps) = totalPages - 1
            /\ \A k \in DOMAIN gaps :
                   /\ gaps[k].top = bgs[k].top + bgs[k].height
                   /\ gaps[k].top + gaps[k].height = bgs[k + 1].top

\* three pages are drawn, with two gaps
C15_Witness ==
    /\ phase = "mounted"
    /\ totalPages = 3
    /\ Len(PageBackgrounds(totalPages)) = 3
    /\ PageBackgrounds(totalPages)[3].top = 2 * (CONTENT_HEIGHT_PX + 28)

\* C16: every PageBreak of pageBreaks has exactly one indicator line, at
\* heightFromTop + marginPx and labelled with its pageNumber, and every
\* indicator line belongs to a break of pageBreaks.
C16_BreakLines ==
    LET lines == BreakLines(pageBreaks, MARGIN_PX)
    IN  /\ \A b \in DOMAIN pageBreaks :
               Cardinality({ k \in DOMAIN lines :
                               /\ lines[k].label = pageBreaks[b].pageNumber
                               /\ lines[k].top = pageBreaks[b].heightFromTop + 96 }) = 1
        /\ \A k \in DOMAIN lines :
               \E b \in DOMAIN pageBreaks :
                   /\ lines[k].label = pageBreaks[b].pageNumber
                   /\ lines[k].top = pageBreaks[b].heightFromTop + 96
        /\ Len(lines) = Len(pageBreaks)

\* two breaks are drawn
C16_Witness ==
    /\ phase = "mounted"
    /\ Len(pageBreaks) = 2
    /\ BreakLines(pageBreaks, MARGIN_PX)[2].top = 2 * CONTENT_HEIGHT_PX + MARGIN_PX
    /\ BreakLines(pageBreaks, MARGIN_PX)[2].label = 2

\* C17: in every state the geometry has contentWidthPx = pageWidthPx -
\* 2*marginPx and contentHeightPx = pageHeightPx - 2*marginPx, all four page
\* and content values positive, and the values 816, 1056, 96, 624 and 864;
\* the breaks and the page backgrounds are laid out with these values.
C17_Geometry ==
    LET g == PageGeometry
    IN  /\ g.contentWidthPx = g.pageWidthPx - 2 * g.marginPx
        /\ g.contentHeightPx = g.pageHeightPx - 2 * g.marginPx
        /\ g.pageWidthPx > 0 /\ g.pageHeightPx > 0
        /\ g.contentWidthPx > 0 /\ g.contentHeightPx > 0
        /\ g = [ pageWidthPx |-> 816, pageHeightPx |-> 1056, marginPx |-> 96,
                 contentWidthPx |-> 624, contentHeightPx |-> 864 ]
        /\ \A k \in DOMAIN pageBreaks : pageBreaks[k].heightFromTop = k * 864
        /\ \A k \in DOMAIN PageBackgrounds(totalPages) :
               /\ PageBackgrounds(totalPages)[k].width = 624
               /\ PageBackgrounds(totalPages)[k].height = 864
        /\ \A k \in DOMAIN BreakLines(pageBreaks, g.marginPx) :
               BreakLines(pageBreaks, g.marginPx)[k].top = k * 864 + 96

\* content of more than two pages has been paginated with the 864 px unit
C17_Witness ==
    /\ phase = "mounted"
    /\ lastCalc.outcome = "measured"
    /\ contentHeight > 2 * 864
    /\ Len(pageBreaks) >= 2
    /\ pageBreaks[2].heightFromTop = 2 * PageGeometry.contentHeightPx

\* the number of multiples k * unit, k >= 1, below h
MultiplesBelow(h, unit) == Cardinality({ k \in 1..(MaxPages + 2) : k * unit < h })

\* C18: in every state a render can read, pageBreaks and totalPages come from
\* one height measurement: some height gives both the break list and the
\* page count of the state, and once a height has been measured that height
\* gives both.
C18_StateFromOneMeasurement ==
    /\ \E h \in Heights :
           /\ Len(pageBreaks) = MultiplesBelow(h, 864)
           /\ \A k \in DOMAIN pageBreaks :
                  pageBreaks[k] = [pageNumber |-> k, heightFromTop |-> k * 864]
           /\ totalPages = Max(1, Ceil(h, 864))
    /\ lastCalc.outcome = "measured" =>
           /\ Len(pageBreaks) = MultiplesBelow(lastCalc.height, 864)
           /\ totalPages = Max(1, Ceil(lastCalc.height, 864))

\* a recalculation has changed both the break list and the page count
C18_Witness ==
    /\ phase = "mounted"
    /\ burstRuns >= 1
    /\ lastCalc.outcome = "measured"
    /\ lastCalc.height = 2 * 864 + 1
    /\ Len(pageBreaks) = 2
    /\ totalPages = 3

\* C19: at most one debounce timer is pending at any time; a trigger that
\* arrives while a timer is pending leaves exactly one timer, with the full
\* delay, and computes nothing; a computation happens only in a step that
\* consumes the one pending timer (or at mount), so no two overlap.
C19_OneTimerOneComputation ==
    /\ [](Cardinality(DebounceTimers) <= 1)
    /\ [][ /\ \A t \in DebounceTimers' :
                  (DebounceTimers # {} /\ t \notin DebounceTimers
                        /\ t.remaining = DEBOUNCE_MS)
                      => /\ DebounceTimers' = {t}
                         /\ debounceTimerRef' = t.id
                         /\ UNCHANGED paginationVars
           /\ lastCalc' # lastCalc
                  => \/ phase = "init"
                     \/ /\ Cardinality(DebounceTimers) = 1
                        /\ DebounceTimers' = {}
         ]_vars

\* a second trigger has replaced the pending timer while the 50 ms timer of
\* insertTestContent is pending too
C19_Witness ==
    /\ phase = "mounted"
    /\ burstTriggers >= 2
    /\ sinceTrigger = 0
    /\ InsertTimers # {}
    /\ Cardinality(DebounceTimers) = 1
    /\ \A t \in DebounceTimers : t.remaining = DEBOUNCE_MS /\ t.id = debounceTimerRef

\* C20: after a recalculation that measured H' the state is the one H' alone
\* gives: the breaks are exactly the multiples of 864 below H', numbered from
\* 1, and totalPages is max(1, ceil(H' / 864)), whatever the state was
\* before; when H' is below the height measured before, no break at or
\* beyond H' remains and neither the break list nor totalPages grows.
C20_NoMemory ==
    /\ [](lastCalc.outcome = "measured" =>
            /\ \A k \in 1..(MaxPages + 2) :
                   (k * 864 < lastCalc.height)
                       <=> (/\ k \in DOMAIN pageBreaks
                            /\ pageBreaks[k].heightFromTop = k * 864
                            /\ pageBreaks[k].pageNumber = k)
            /\ \A k \in DOMAIN pageBreaks : k <= MaxPages + 2
            /\ totalPages = Max(1, Ceil(lastCalc.height, 864)))
    /\ [][ (/\ lastCalc.outcome = "measured"
            /\ lastCalc'.outcome = "measured"
            /\ lastCalc'.height < lastCalc.height)
               => /\ lastCalc'.shrunk
                  /\ \A k \in DOMAIN pageBreaks' :
                         pageBreaks'[k].heightFromTop < lastCalc'.height
                  /\ Len(pageBreaks') <= Len(pageBreaks)
                  /\ totalPages' <= totalPages
         ]_vars

\* three pages were measured, then the content shrank to less than a page
\* and the recalculation left no break
C20_Witness ==
    /\ phase = "mounted"
    /\ lastCalc.outcome = "measured"
    /\ lastCalc.shrunk
    /\ lastCalc.height = 864 - 1
    /\ pageBreaks = << >>
    /\ totalPages = 1

\* a step that calls recalculate: an editor update, a ResizeObserver
\* notification, or insertTestContent and its delayed call
TriggerStep ==
    \/ OnUpdate
    \/ ResizeObserverCallback
    \/ InsertTestContent
    \/ InsertTimerFire

\* pageBreaks and totalPages are the ones the current content height gives
InSync ==
    /\ lastCalc.outcome = "measured"
    /\ Len(pageBreaks) = MultiplesBelow(contentHeight, 864)
    /\ \A k \in DOMAIN pageBreaks :
           pageBreaks[k] = [pageNumber |-> k, heightFromTop |-> k * 864]
    /\ totalPages = Max(1, Ceil(contentHeight, 864))

\* C21: when the component is never torn down and the calls of recalculate
\* stop, a recomputation runs after the last call and pageBreaks and
\* totalPages are from then on the ones the current content height gives;
\* and while the component is mounted, a call of recalculate that no
\* recomputation has followed yet has its timer pending.
C21_CatchesUp ==
    /\ ([](phase # "unmounted") /\ <>[][~TriggerStep]_vars)
           => <>[](phase = "mounted" /\ InSync /\ DebounceTimers = {})
    /\ []((phase = "mounted" /\ burstTriggers >= 1 /\ burstRuns = 0)
            => DebounceTimers # {})

\* a resize was observed, the debounce window elapsed and the recomputation
\* brought the state up to the new height, with no timer left
C21_Witness ==
    /\ phase = "mounted"
    /\ burstTriggers >= 1
    /\ burstRuns = 1
    /\ timers = {}
    /\ ~resizePending
    /\ sinceTrigger = DEBOUNCE_MS
    /\ contentHeight = 3 * 864 + 1
    /\ InSync
    /\ totalPages = 4

\* C22: the strips of a finished export partition the rows of the captured
\* image: strip i starts at row i * 864 * scale and ends before row
\* min((i + 1) * 864 * scale, height); the first starts at row 0, each next
\* one starts where the one before ends, every strip has at least one row and
\* the last ends at the last row of the image.
C22_StripsPartition ==
    lastExport.captureOk =>
        LET strips == lastExport.images
            height == lastExport.totalHeight
            ph     == 864 * scale
            End(k) == strips[k].sy + strips[k].height
        IN  /\ \A k \in DOMAIN strips :
                   /\ strips[k].sy = (k - 1) * ph
                   /\ End(k) = Min(k * ph, height)
                   /\ strips[k].height >= 1
                   /\ k > 1 => strips[k].sy = End(k - 1)
            /\ height > 0 => (strips # << >> /\ strips[1].sy = 0
                                /\ End(Len(strips)) = height)
            /\ height = 0 => strips = << >>
            /\ \A r \in { k * ph + d : k \in 0..(MaxPages + 1), d \in {-1, 0} }
                          \cup { height - 1 } :
                   (0 <= r /\ r < height)
                       => Cardinality({ k \in DOMAIN strips :
                               strips[k].sy <= r /\ r < End(k) }) = 1

\* two and a half pages were exported: two full strips and a half one
C22_Witness ==
    /\ lastExport.captureOk
    /\ lastExport.totalHeight = 5 * 864
    /\ Len(lastExport.images) = 3
    /\ lastExport.images[3].sy = 4 * 864
    /\ lastExport.images[3].height = 864

\* C23: in every state of the hook, the initial one included, totalPages is
\* at least 1, there are totalPages - 1 page breaks, and their pageNumber
\* values are exactly 1 .. totalPages - 1, each once and in this order.
C23_BreaksOneLessThanPages ==
    /\ totalPages >= 1
    /\ Len(pageBreaks) = totalPages - 1
    /\ { pageBreaks[k].pageNumber : k \in DOMAIN pageBreaks } = 1..(totalPages - 1)
    /\ \A k \in DOMAIN pageBreaks : pageBreaks[k].pageNumber = k

\* four pages with three breaks, while a further recalculation is pending
C23_Witness ==
    /\ phase = "mounted"
    /\ totalPages = 4
    /\ Len(pageBreaks) = 3
    /\ pageBreaks[3].pageNumber = 3
    /\ DebounceTimers # {}
    /\ contentHeight = 0

\* C24: when an export finishes, by a saved document or by a failed capture,
\* the background of the content element is the one it had when that export
\* started.
C24_BackgroundRestored ==
    [][ \A job \in inflight :
            job \notin inflight' => elementBg' = job.previousBg ]_vars

(***************************************************************************)
(* Specifications                                                          *)
(***************************************************************************)
NextPagination ==
    \/ Mount
    \/ Unmount
    \/ OnUpdate
    \/ Resize
    \/ ResizeObserverCallback
    \/ InsertTestContent
    \/ InsertTimerFire
    \/ DebounceTimerFire
    \/ Tick

\* the hook driven by editor updates and size changes
NextLive ==
    \/ Mount
    \/ Unmount
    \/ OnUpdate
    \/ Resize
    \/ ResizeObserverCallback
    \/ DebounceTimerFire
    \/ Tick

NextExport ==
    \/ Mount
    \/ Unmount
    \/ ExportStart
    \/ CaptureResolve
    \/ CaptureReject

NextChrome ==
    \/ Mount
    \/ SetFooterText
    \/ SetShowPageNumbers

\* the pagination hook and the triggers of its recalculation
Spec == Init /\ [][NextPagination]_vars

\* exports of the content as it was paginated at mount, for every height
SpecExport == Init /\ [][NextExport]_vars

\* the page chrome of the content as it was paginated at mount, under every
\* footer setting
SpecChrome == Init /\ [][NextChrome]_vars

\* the pagination hook under editor updates and size changes, with the
\* scheduling of the browser: the effect runs after the first render, time
\* passes, a due timer fires and a pending ResizeObserver notification is
\* delivered
SpecLive ==
    /\ Init /\ [][NextLive]_vars
    /\ WF_vars(Mount)
    /\ WF_vars(Tick)
    /\ WF_vars(DebounceTimerFire)
    /\ WF_vars(ResizeObserverCallback)

====
